---- MODULE Spec2Model ----
(***************************************************************************)
(* Appointment scheduling of the EMR backend: the booking ledger           *)
(* (create_appointment, cancel, reschedule), the slot materializer         *)
(* (get_slots_for_day) and the availability statistics, modelled over a    *)
(* relational store with read-committed transactions.                      *)
(*                                                                         *)
(* Time: a datetime is an integer, day * DayLen + time of day, in minutes;  *)
(* a date is a day number; weekday(day) = day % 7.  All datetimes are      *)
(* naive local times (make_naive / make_aware of the one configured        *)
(* timezone cancel out).                                                   *)
(***************************************************************************)
EXTENDS Integers, Sequences, FiniteSets, TLC

\* ---------------------------------------------------------------- bounds
NumReqs == 2            \* request handlers running concurrently
NumPatients == 2
MaxBookings == 3        \* TokenBooking rows ever created
MaxRequests == 4        \* booking requests ever started
MaxQueries == 2         \* get_slots_for_day / availability_stats requests
MaxSchedules == 2       \* Schedule rows
MaxAvailabilities == 2  \* Availability rows

Reqs == 1..NumReqs
Patients == 1..NumPatients

\* ------------------------------------------------------- program constants
DayLen == 24 * 60       \* minutes per day
CANCELLED_STATUS_CHOICES == {"cancelled", "entered_in_error", "rescheduled"}
CancelReasons == {"cancelled", "entered_in_error", "rescheduled"}

VARIABLES
    now,            \* timezone.now()
    schedules,      \* Schedule rows: Seq of [valid_from, valid_to]
    availabilities, \* Availability rows: Seq of [schedule, slot_type,
                    \*   slot_size_in_minutes, tokens_per_slot, availability]
    exceptions,     \* AvailabilityException rows
    slots,          \* TokenSlot rows (committed): Seq of [availability,
                    \*   start_datetime, end_datetime, allocated]
    bookings,       \* TokenBooking rows (committed): Seq of [token_slot,
                    \*   patient, status]
    lock,           \* holders of Lock("booking:resource:<id>"): {} when free
    req,            \* per request handler: position and in-memory objects
    pend,           \* per request handler: writes of its open transaction
    started,        \* number of client requests received so far
    reply,          \* response to the last schedule / availability request
    deleted,        \* rows no query returns any more: [schedules, availabilities,
                    \*   slots], each a set of row ids
    payload,        \* request body awaiting validation ("none" when there is none)
    perms,          \* the permissions of the requesting user
    resources       \* SchedulableUserResource rows of the user: their facilities

vars == <<now, schedules, availabilities, exceptions, slots, bookings, lock,
          req, pend, started, reply, deleted, payload, perms, resources>>

\* What the booking and query handlers leave alone.
config == <<now, schedules, availabilities, exceptions, deleted, payload, perms, resources>>
db == <<slots, bookings>>

\* ------------------------------------------------------------- helpers
DateOf(dt) == dt \div DayLen
TimeOf(dt) == dt % DayLen
Combine(day, t) == day * DayLen + t

NoReq == [pc |-> "done", op |-> "none", booking |-> 0, new_slot |-> 0,
          patient |-> 0, reason |-> "none", l_status |-> "none",
          l_slot |-> 0, l_alloc |-> 0, l_new_alloc |-> 0, result |-> "none",
          day |-> 0, from_date |-> 0, to_date |-> 0, todo |-> << >>,
          resp |-> << >>, target |-> 0, valid_from |-> 0, valid_to |-> 0]

\* A finished request: what it was, what it had loaded and how it ended.
Finished(q, res) == [q EXCEPT !.pc = "done", !.result = res]

NoPend == [slotw |-> {}, statw |-> {}, newb |-> <<>>]

\* The permissions the booking endpoints ask the AuthorizationController for.
AllPermissions == {"can_write_user_booking", "can_create_appointment"}

\* Faulty variant: the handler goes on whatever the controller answers.
AuthorizedAlways(perm) == TRUE

\* AuthorizationController.call(perm, user, ...)
Authorized(perm) == perm \in perms

\* The facility of the requests' URL, and another one the user works in.
Facility == "F"
OtherFacility == "G"
Facilities == {Facility, OtherFacility}

\* SchedulableUserResource.objects.filter(facility, user).first(): the row of
\* lowest id among the user's rows in the facility, 0 for None.
ResourceIn(facility) ==
    IF \E k \in DOMAIN resources : resources[k] = facility
    THEN CHOOSE k \in DOMAIN resources :
            /\ resources[k] = facility
            /\ \A j \in 1..(k - 1) : resources[j] # facility
    ELSE 0

\* get_slots_for_day_handler: filter(facility__external_id=..., user=user).first()
SlotsResource == ResourceIn(Facility)

\* availability_stats: SchedulableUserResource.objects.filter(user=user).first()
StatsResource == IF resources = << >> THEN 0 ELSE 1

NoneDeleted == [schedules |-> {}, availabilities |-> {}, slots |-> {}]
\* The rows the default managers return.
LiveSchedules == DOMAIN schedules \ deleted.schedules
LiveAvailabilities == DOMAIN availabilities \ deleted.availabilities
LiveSlots == DOMAIN slots \ deleted.slots

\* The writes of q's open transaction hold the row locks of the rows written.
SlotRowFree(r, s) ==
    \A q \in Reqs \ {r} : \A w \in pend[q].slotw : w[1] # s
BookingRowFree(r, b) ==
    \A q \in Reqs \ {r} : \A w \in pend[q].statw : w[1] # b

WriteSlot(p, s, v) ==
    [p EXCEPT !.slotw = {w \in p.slotw : w[1] # s} \cup {<<s, v>>}]
WriteStatus(p, b, st) ==
    [p EXCEPT !.statw = {w \in p.statw : w[1] # b} \cup {<<b, st>>}]

\* COMMIT: the transaction's writes become the committed rows.
CommittedSlots(p) ==
    [i \in DOMAIN slots |->
        IF \E w \in p.slotw : w[1] = i
        THEN [slots[i] EXCEPT !.allocated =
                 (CHOOSE w \in p.slotw : w[1] = i)[2]]
        ELSE slots[i]]
CommittedBookings(p) ==
    [i \in DOMAIN bookings |->
        IF \E w \in p.statw : w[1] = i
        THEN [bookings[i] EXCEPT !.status =
                 (CHOOSE w \in p.statw : w[1] = i)[2]]
        ELSE bookings[i]] \o p.newb

\* Requests that will still insert a TokenBooking row.
Inserting == {q \in Reqs : req[q].pc # "done" /\ req[q].op \in {"create", "reschedule"}}

\* ------------------------------------------------------ the booking ledger
\* Lock.__enter__ / __exit__ on "booking:resource:<id>": blocks until free.
LockAcquire(r) == lock = {} /\ lock' = {r}
LockRelease(r) == lock' = lock \ {r}

\* SlotViewSet.create_appointment: get_object() loads the TokenSlot row into
\* the request's memory; the handler looks the patient up ("Patient not
\* found" when there is none) and then calls lock_create_appointment.
create_appointment(r, s, p) ==
    /\ req[r].pc = "done"
    /\ s \in LiveSlots
    /\ Len(bookings) + Cardinality(Inserting) < MaxBookings
    /\ req' = [req EXCEPT ![r] =
                  IF ~Authorized("can_create_appointment")
                  THEN Finished([NoReq EXCEPT !.op = "create", !.new_slot = s,
                                              !.patient = p],
                                "permission_denied")
                  ELSE IF p \in Patients
                  THEN [NoReq EXCEPT
                           !.pc = "lca_acquire", !.op = "create", !.new_slot = s,
                           !.patient = p, !.l_new_alloc = slots[s].allocated]
                  ELSE Finished([NoReq EXCEPT !.op = "create", !.new_slot = s,
                                              !.patient = p],
                                "patient_not_found")]
    /\ started < MaxRequests /\ started' = started + 1
    /\ UNCHANGED <<config, slots, bookings, lock, pend, reply>>

\* lock_create_appointment: with Lock(...), transaction.atomic()
lca_acquire(r) ==
    /\ req[r].pc = "lca_acquire"
    /\ LockAcquire(r)
    /\ req' = [req EXCEPT ![r].pc = "lca_check"]
    /\ UNCHANGED <<config, slots, bookings, pend, started, reply>>

\* TokenBooking.objects.filter(token_slot, patient).exclude(cancelled).exists():
\* a query, so it sees the committed rows and the transaction's own writes.
HasActiveBooking(r, s, p) ==
    LET mine == CommittedBookings(pend[r])
    IN  \E i \in DOMAIN mine :
            /\ mine[i].token_slot = s
            /\ mine[i].patient = p
            /\ mine[i].status \notin CANCELLED_STATUS_CHOICES

\* The three checks of lock_create_appointment, on the in-memory token_slot.
LcaVerdict(r) ==
    LET s == req[r].new_slot
    IN  IF slots[s].start_datetime < now THEN "past"
        ELSE IF req[r].l_new_alloc >=
                availabilities[slots[s].availability].tokens_per_slot
             THEN "full"
        ELSE IF HasActiveBooking(r, s, req[r].patient) THEN "dup"
        ELSE "ok"

lca_check(r) ==
    /\ req[r].pc = "lca_check"
    /\ LET v == LcaVerdict(r)
       IN  req' = [req EXCEPT ![r].result = v,
                              ![r].pc = IF v = "ok" THEN "lca_save"
                                        ELSE "lca_unlock"]
    /\ UNCHANGED <<config, slots, bookings, lock, pend, started, reply>>

\* token_slot.allocated += 1; token_slot.save(); TokenBooking.objects.create(...)
lca_save(r) ==
    /\ req[r].pc = "lca_save"
    /\ SlotRowFree(r, req[r].new_slot)
    /\ pend' = [pend EXCEPT ![r] =
          [WriteSlot(pend[r], req[r].new_slot, req[r].l_new_alloc + 1)
              EXCEPT !.newb = Append(@, [token_slot |-> req[r].new_slot,
                                         patient |-> req[r].patient,
                                         status |-> "booked"])]]
    /\ req' = [req EXCEPT ![r].l_new_alloc = @ + 1, ![r].pc = "lca_commit"]
    /\ UNCHANGED <<config, slots, bookings, lock, started, reply>>

\* Leaving transaction.atomic() of lock_create_appointment: a COMMIT when it is
\* the outermost block, a savepoint release inside reschedule's transaction.
LcaCommits(r) == req[r].op = "create"

lca_commit(r) ==
    /\ req[r].pc = "lca_commit"
    /\ IF LcaCommits(r)
       THEN /\ slots' = CommittedSlots(pend[r])
            /\ bookings' = CommittedBookings(pend[r])
            /\ pend' = [pend EXCEPT ![r] = NoPend]
       ELSE UNCHANGED <<slots, bookings, pend>>
    /\ req' = [req EXCEPT ![r].pc = "lca_unlock"]
    /\ UNCHANGED <<config, lock, started, reply>>

\* Leaving Lock(...): after the atomic block, on success and on error.
lca_unlock(r) ==
    /\ req[r].pc = "lca_unlock"
    /\ LockRelease(r)
    /\ req' = [req EXCEPT ![r] = IF req[r].op = "create"
                                  THEN Finished(req[r], req[r].result)
                                  ELSE [req[r] EXCEPT !.pc = "r_exit"]]
    /\ UNCHANGED <<config, slots, bookings, pend, started, reply>>

\* TokenBookingViewSet.cancel: get_object() loads the booking and, by
\* select_related, its token_slot; authorize_update decides before the handler.
cancel(r, b, reason) ==
    /\ req[r].pc = "done"
    /\ b \in DOMAIN bookings
    /\ req' = [req EXCEPT ![r] =
                  LET q == [NoReq EXCEPT
                              !.op = "cancel", !.booking = b,
                              !.reason = reason, !.patient = bookings[b].patient,
                              !.l_status = bookings[b].status,
                              !.l_slot = bookings[b].token_slot,
                              !.l_alloc = slots[bookings[b].token_slot].allocated]
                  IN  IF Authorized("can_write_user_booking")
                      THEN [q EXCEPT !.pc = "cah_slot"]
                      ELSE Finished(q, "permission_denied")]
    /\ started < MaxRequests /\ started' = started + 1
    /\ UNCHANGED <<config, slots, bookings, lock, pend, reply>>

\* Faulty variant: the slot is freed whatever the booking's status.
CahReleasesAlways(r) == TRUE

\* cancel_appointment_handler: free up the slot if not cancelled already.
CahReleases(r) == req[r].l_status \notin CANCELLED_STATUS_CHOICES

cah_slot(r) ==
    /\ req[r].pc = "cah_slot"
    /\ IF CahReleases(r)
       THEN /\ SlotRowFree(r, req[r].l_slot)
            /\ pend' = [pend EXCEPT ![r] =
                          WriteSlot(@, req[r].l_slot, req[r].l_alloc - 1)]
            /\ req' = [req EXCEPT ![r].l_alloc = @ - 1,
                                  ![r].pc = "cah_booking"]
       ELSE /\ req' = [req EXCEPT ![r].pc = "cah_booking"]
            /\ UNCHANGED pend
    /\ UNCHANGED <<config, slots, bookings, lock, started, reply>>

\* instance.status = reason; instance.save()
cah_booking(r) ==
    /\ req[r].pc = "cah_booking"
    /\ BookingRowFree(r, req[r].booking)
    /\ pend' = [pend EXCEPT ![r] =
                   WriteStatus(@, req[r].booking, req[r].reason)]
    /\ req' = [req EXCEPT ![r].l_status = req[r].reason, ![r].pc = "cah_exit"]
    /\ UNCHANGED <<config, slots, bookings, lock, started, reply>>

\* Leaving transaction.atomic() of cancel_appointment_handler: a COMMIT for
\* the cancel endpoint, a savepoint release inside reschedule's transaction.
CahCommits(r) == req[r].op = "cancel"

cah_exit(r) ==
    /\ req[r].pc = "cah_exit"
    /\ IF CahCommits(r)
       THEN /\ slots' = CommittedSlots(pend[r])
            /\ bookings' = CommittedBookings(pend[r])
            /\ pend' = [pend EXCEPT ![r] = NoPend]
            /\ req' = [req EXCEPT ![r] = Finished(req[r], "ok")]
       ELSE /\ req' = [req EXCEPT ![r].pc = "lca_acquire"]
            /\ UNCHANGED <<slots, bookings, pend>>
    /\ UNCHANGED <<config, lock, started, reply>>

\* TokenBookingViewSet.reschedule: existing_booking = get_object(), then
\* authorize_update and the can_create_appointment check.
reschedule(r, b, s) ==
    /\ req[r].pc = "done"
    /\ b \in DOMAIN bookings
    /\ s \in LiveSlots
    /\ Len(bookings) + Cardinality(Inserting) < MaxBookings
    /\ req' = [req EXCEPT ![r] =
                  LET q == [NoReq EXCEPT
                              !.op = "reschedule", !.booking = b,
                              !.reason = "rescheduled", !.new_slot = s,
                              !.patient = bookings[b].patient,
                              !.l_status = bookings[b].status,
                              !.l_slot = bookings[b].token_slot,
                              !.l_alloc = slots[bookings[b].token_slot].allocated]
                  IN  IF Authorized("can_write_user_booking")
                         /\ Authorized("can_create_appointment")
                      THEN [q EXCEPT !.pc = "r_new_slot"]
                      ELSE Finished(q, "permission_denied")]
    /\ started < MaxRequests /\ started' = started + 1
    /\ UNCHANGED <<config, slots, bookings, lock, pend, reply>>

\* new_slot = get_object_or_404(TokenSlot, ...): a second object, also when it
\* is the row existing_booking.token_slot was loaded from.
r_new_slot(r) ==
    /\ req[r].pc = "r_new_slot"
    /\ req' = [req EXCEPT ![r].l_new_alloc = slots[req[r].new_slot].allocated,
                          ![r].pc = "cah_slot"]
    /\ UNCHANGED <<config, slots, bookings, lock, pend, started, reply>>

\* Faulty variant: no enclosing transaction, the cancel stays when the create fails.
RescheduleCommitsAlways(r) == TRUE

\* Leaving reschedule's transaction.atomic(): COMMIT when the block returned,
\* ROLLBACK when lock_create_appointment raised.
RescheduleCommits(r) == req[r].result = "ok"

r_exit(r) ==
    /\ req[r].pc = "r_exit"
    /\ IF RescheduleCommits(r)
       THEN /\ slots' = CommittedSlots(pend[r])
            /\ bookings' = CommittedBookings(pend[r])
       ELSE UNCHANGED <<slots, bookings>>
    /\ pend' = [pend EXCEPT ![r] = NoPend]
    /\ req' = [req EXCEPT ![r] = Finished(req[r], req[r].result)]
    /\ UNCHANGED <<config, lock, started, reply>>

\* ------------------------------------------- schedule and availability setup
\* Faulty variant: windows that only touch at an endpoint pass.
has_overlapping_availability_strict(avs) ==
    \E i, j \in DOMAIN avs :
        /\ i < j
        /\ avs[i].day_of_week = avs[j].day_of_week
        /\ avs[i].start_time < avs[j].end_time
        /\ avs[j].start_time < avs[i].end_time

\* has_overlapping_availability: two windows of one weekday overlap, ends
\* included.
has_overlapping_availability(avs) ==
    \E i, j \in DOMAIN avs :
        /\ i < j
        /\ avs[i].day_of_week = avs[j].day_of_week
        /\ avs[i].start_time <= avs[j].end_time
        /\ avs[j].start_time <= avs[i].end_time

\* AvailabilityForScheduleSpec.validate_availability (field validator)
validate_availability(avs) ==
    IF has_overlapping_availability(avs) THEN "overlapping"
    ELSE IF \E i \in DOMAIN avs : avs[i].start_time >= avs[i].end_time
         THEN "start_not_before_end"
    ELSE "ok"

\* AvailabilityForScheduleSpec.validate_for_slot_type (model validator); a
\* missing (None) slot size or token count is 0 here.
validate_for_slot_type(a) ==
    IF a.slot_type = "appointment"
    THEN IF a.slot_size_in_minutes = 0 THEN "slot_size_required"
         ELSE IF a.tokens_per_slot = 0 THEN "tokens_required"
         ELSE IF \E i \in DOMAIN a.availability :
                    ((a.availability[i].end_time - a.availability[i].start_time) * 60)
                        % (a.slot_size_in_minutes * 60) # 0
              THEN "not_multiple_of_slot_size"
         ELSE "ok"
    ELSE "ok"

\* Validation of one AvailabilityForScheduleSpec: field validators, then the
\* model validator.
AvailabilityVerdict(a) ==
    IF validate_availability(a.availability) # "ok"
    THEN validate_availability(a.availability)
    ELSE validate_for_slot_type(a)

\* The row saved: other slot types than appointment clear size and tokens.
AvailabilityRow(a, sched) ==
    [schedule |-> sched, slot_type |-> a.slot_type,
     slot_size_in_minutes |->
        IF a.slot_type = "appointment" THEN a.slot_size_in_minutes ELSE 0,
     tokens_per_slot |->
        IF a.slot_type = "appointment" THEN a.tokens_per_slot ELSE 0,
     availability |-> a.availability]

RECURSIVE AllWindows(_)
AllWindows(avs) ==
    IF avs = << >> THEN << >>
    ELSE Head(avs).availability \o AllWindows(Tail(avs))

\* ScheduleCreateSpec: each availability, then
\* validate_availabilities_not_overlapping, then validate_period.
ScheduleVerdict(valid_from, valid_to, avs) ==
    IF \E i \in DOMAIN avs : AvailabilityVerdict(avs[i]) # "ok"
    THEN AvailabilityVerdict(avs[CHOOSE i \in DOMAIN avs :
             /\ AvailabilityVerdict(avs[i]) # "ok"
             /\ \A j \in 1..(i - 1) : AvailabilityVerdict(avs[j]) = "ok"])
    ELSE IF has_overlapping_availability(AllWindows(avs)) THEN "overlapping"
    ELSE IF valid_from > valid_to THEN "valid_from_after_valid_to"
    ELSE "ok"

\* ScheduleViewSet create: validation, then perform_extra_deserialization
\* gets or creates the resource of (user, facility) and perform_create saves
\* the schedule and its availabilities in one transaction.  Schedules are set up before
\* the clients' requests start.
schedule_create(facility, valid_from, valid_to, avs) ==
    /\ started = 0
    /\ Len(schedules) < MaxSchedules
    /\ Len(availabilities) + Len(avs) <= MaxAvailabilities
    /\ LET v == ScheduleVerdict(valid_from, valid_to, avs)
       IN  /\ reply' = v
           /\ IF v = "ok"
              THEN /\ resources' = IF ResourceIn(facility) # 0 THEN resources
                                   ELSE Append(resources, facility)
                   /\ schedules' = Append(schedules,
                          [resource |-> IF ResourceIn(facility) # 0
                                        THEN ResourceIn(facility)
                                        ELSE Len(resources) + 1,
                           valid_from |-> valid_from, valid_to |-> valid_to])
                   /\ availabilities' = availabilities \o
                          [i \in DOMAIN avs |->
                              AvailabilityRow(avs[i], Len(schedules) + 1)]
              ELSE UNCHANGED <<schedules, availabilities, resources>>
    /\ UNCHANGED <<now, exceptions, slots, bookings, lock, req, pend, started,
                   deleted, payload, perms>>

\* AvailabilityViewSet create (pydantic_model = AvailabilityForScheduleSpec):
\* the new availability alone is validated.
availability_create(sched, a) ==
    /\ started = 0
    /\ sched \in DOMAIN schedules
    /\ Len(availabilities) < MaxAvailabilities
    /\ LET v == AvailabilityVerdict(a)
       IN  /\ reply' = v
           /\ IF v = "ok"
              THEN availabilities' = Append(availabilities, AvailabilityRow(a, sched))
              ELSE UNCHANGED availabilities
    /\ UNCHANGED <<now, schedules, exceptions, slots, bookings, lock, req,
                   pend, started, deleted, payload, perms, resources>>

\* ------------------------------------------------------ slot materializer
FAILSAFE_ITERATIONS == 30
Weekday(day) == day % 7

\* An exception conflicts with the candidate [current_time, current_time + size).
Conflicting(excs, day, current_time, size) ==
    \E e \in excs :
        /\ Combine(day, e.start_time) < current_time + size
        /\ Combine(day, e.end_time) > current_time

\* slots[key] = {...}: a later candidate with the same key replaces the entry.
DictPut(dict, key, val) == (key :> val) @@ dict

\* The while loop of convert_availability_and_exceptions_to_slots over one
\* weekly window.  Iteration i (1, 2, ...) looks at current_time =
\* start + (i - 1) * size; the loop ends when current_time reaches end_time
\* or when i = FAILSAFE_ITERATIONS.  The key is "<start time>-<end time>".
Iterations(current_time, end_time, size) ==
    {i \in 1..(FAILSAFE_ITERATIONS - 1) : current_time + (i - 1) * size < end_time}

WalkWindow(day, start_time, end_time, entry, excs, dict) ==
    LET size == entry.slot_size_in_minutes
        at(i) == start_time + (i - 1) * size
        kept == {i \in Iterations(start_time, end_time, size) :
                    ~Conflicting(excs, day, at(i), size)}
        keys == {<<TimeOf(at(i)), TimeOf(at(i) + size)>> : i \in kept}
    IN  [k \in keys |-> [start_time |-> k[1], end_time |-> k[2],
                         availability_id |-> entry.availability_id]] @@ dict

RECURSIVE convert_availability_and_exceptions_to_slots(_, _, _, _)
convert_availability_and_exceptions_to_slots(avs, excs, day, dict) ==
    IF avs = << >> THEN dict
    ELSE convert_availability_and_exceptions_to_slots(Tail(avs), excs, day,
            WalkWindow(day,
                       Combine(day, Head(avs).availability.start_time),
                       Combine(day, Head(avs).availability.end_time),
                       Head(avs), excs, dict))

\* The resource a slot was created for: that of its availability's schedule.
ResourceOfSlot(i) == schedules[availabilities[slots[i].availability].schedule].resource

\* AvailabilityException.objects.filter(resource=...): the exceptions on record
\* are those of the facility's resource, which exception creation resolves.
ExceptionsOf(resource) == IF resource = SlotsResource THEN exceptions ELSE {}

\* Availability.objects.filter(slot_type=appointment, schedule__valid_from__lte=day,
\* schedule__valid_to__gte=day, schedule__resource=...): the date is compared
\* as midnight of that day.
SelectedForDay(a, day) ==
    /\ a \in LiveAvailabilities
    /\ availabilities[a].slot_type = "appointment"
    /\ schedules[availabilities[a].schedule].resource = SlotsResource
    /\ schedules[availabilities[a].schedule].valid_from <= Combine(day, 0)
    /\ schedules[availabilities[a].schedule].valid_to >= Combine(day, 0)

RECURSIVE DowWindows(_, _, _)
DowWindows(a, k, dow) ==
    IF k > Len(availabilities[a].availability) THEN << >>
    ELSE (IF availabilities[a].availability[k].day_of_week = dow
          THEN << [availability |-> availabilities[a].availability[k],
                   slot_size_in_minutes |-> availabilities[a].slot_size_in_minutes,
                   availability_id |-> a] >>
          ELSE << >>) \o DowWindows(a, k + 1, dow)

\* The weekly windows of the selected availabilities that fall on day's weekday.
RECURSIVE calculated_dow_availabilities(_, _)
calculated_dow_availabilities(a, day) ==
    IF a > Len(availabilities) THEN << >>
    ELSE (IF SelectedForDay(a, day) THEN DowWindows(a, 1, Weekday(day))
          ELSE << >>) \o calculated_dow_availabilities(a + 1, day)

\* TokenSlot.objects.filter(start_datetime__date=day, end_datetime__date=day,
\*     resource=schedulable_resource_obj)
SlotsOfDay(day) ==
    {i \in LiveSlots : /\ DateOf(slots[i].start_datetime) = day
                        /\ DateOf(slots[i].end_datetime) = day
                        /\ ResourceOfSlot(i) = SlotsResource}

SlotKey(i) == <<TimeOf(slots[i].start_datetime), TimeOf(slots[i].end_datetime)>>

\* Faulty variant: nothing is dropped, every candidate is created again.
AlreadyCreatedNever(dict, key) == FALSE

\* The candidate `key` is dropped: a slot of the day has its key and availability.
AlreadyCreated(dict, key) ==
    \E i \in SlotsOfDay(dict[key].day) :
        SlotKey(i) = key /\ dict[key].availability_id = slots[i].availability

\* The candidates of `day` that are not on record yet.
SlotsToCreate(day) ==
    LET found == convert_availability_and_exceptions_to_slots(
                     calculated_dow_availabilities(1, day),
                     {e \in ExceptionsOf(SlotsResource) :
                         e.valid_from <= day /\ e.valid_to >= day},
                     day, << >>)
        dict == [k \in DOMAIN found |->
                    [start_time |-> found[k].start_time,
                     end_time |-> found[k].end_time,
                     availability_id |-> found[k].availability_id,
                     day |-> day]]
    IN  [k \in {x \in DOMAIN dict : ~AlreadyCreated(dict, x)} |-> dict[k]]

\* The rows TokenSlot.objects.create makes of the remaining candidates, taken
\* in order of their keys.
KeyBefore(x, y) == x[1] < y[1] \/ (x[1] = y[1] /\ x[2] <= y[2])

NewSlotRows(dict) ==
    [n \in 1..Cardinality(DOMAIN dict) |->
        LET k == CHOOSE x \in DOMAIN dict :
                     Cardinality({y \in DOMAIN dict : KeyBefore(y, x)}) = n
        IN  [availability |-> dict[k].availability_id,
             start_datetime |-> Combine(dict[k].day, dict[k].start_time),
             end_datetime |-> Combine(dict[k].day, dict[k].end_time),
             allocated |-> 0]]

\* SlotViewSet.get_slots_for_day_handler, up to the loop over created_slots.
get_slots_for_day(r, day) ==
    /\ req[r].pc = "done"
    /\ started < MaxQueries /\ started' = started + 1
    /\ req' = [req EXCEPT ![r] =
                  IF SlotsResource = 0
                  THEN Finished([NoReq EXCEPT !.op = "get_slots_for_day", !.day = day],
                                "not_schedulable")
                  ELSE [NoReq EXCEPT
                           !.pc = "gsfd_create", !.op = "get_slots_for_day",
                           !.day = day, !.todo = SlotsToCreate(day)]]
    /\ UNCHANGED <<config, slots, bookings, lock, pend, reply>>

\* Faulty variant: the slots of the day already on record are saved again
\* with the defaults of a new slot.
gsfd_create_resaving(r) ==
    /\ req[r].pc = "gsfd_create"
    /\ slots' = [i \in DOMAIN slots |->
                    IF DateOf(slots[i].start_datetime) = req[r].day
                    THEN [slots[i] EXCEPT !.allocated = 0]
                    ELSE slots[i]] \o NewSlotRows(req[r].todo)
    /\ req' = [req EXCEPT ![r].pc = "gsfd_return", ![r].todo = << >>]
    /\ UNCHANGED <<config, bookings, lock, pend, started, reply>>

\* "Create everything else"
gsfd_create(r) ==
    /\ req[r].pc = "gsfd_create"
    /\ slots' = slots \o NewSlotRows(req[r].todo)
    /\ req' = [req EXCEPT ![r].pc = "gsfd_return", ![r].todo = << >>]
    /\ UNCHANGED <<config, bookings, lock, pend, started, reply>>

\* The response: all slots of the day now on record.
gsfd_return(r) ==
    /\ req[r].pc = "gsfd_return"
    /\ req' = [req EXCEPT ![r] =
                  [Finished(req[r], "ok") EXCEPT !.resp = SlotsOfDay(req[r].day)]]
    /\ UNCHANGED <<config, slots, bookings, lock, pend, started, reply>>

\* --------------------------------------------------- availability statistics
max_period == 32

\* AvailabilityStatsRequestSpec.validate_period
validate_period(from_date, to_date) ==
    IF from_date > to_date THEN "from_after_to"
    ELSE IF to_date - from_date > max_period THEN "period_too_long"
    ELSE "ok"

\* The inner while loop of calculate_slots over one weekly window: the number
\* of candidates start + k * size before end_time that no exception conflicts
\* with.
CountCandidates(date, start_time, end_time, size, excs) ==
    Cardinality({k \in 0..(end_time - start_time) :
                    /\ start_time + k * size < end_time
                    /\ ~Conflicting(excs, date, start_time + k * size, size)})

RECURSIVE WindowsTotal(_, _, _, _)
WindowsTotal(date, a, k, excs) ==
    IF k > Len(availabilities[a].availability) THEN 0
    ELSE LET w == availabilities[a].availability[k]
         IN  (IF w.day_of_week # Weekday(date) THEN 0
              ELSE availabilities[a].tokens_per_slot
                   * CountCandidates(date, Combine(date, w.start_time),
                                     Combine(date, w.end_time),
                                     availabilities[a].slot_size_in_minutes, excs))
             + WindowsTotal(date, a, k + 1, excs)

\* calculate_slots: every candidate of every appointment availability of the
\* day's schedules counts tokens_per_slot.
RECURSIVE calculate_slots(_, _, _, _)
calculate_slots(date, a, current_schedules, excs) ==
    IF a > Len(availabilities) THEN 0
    ELSE (IF availabilities[a].schedule \in current_schedules
             /\ a \in LiveAvailabilities
             /\ availabilities[a].slot_type = "appointment"
          THEN WindowsTotal(date, a, 1, excs) ELSE 0)
         + calculate_slots(date, a + 1, current_schedules, excs)

\* Sum("allocated") over a group of slots, value by value.
RECURSIVE SumAllocated(_, _)
SumAllocated(S, vals) ==
    IF vals = {} THEN 0
    ELSE LET v == CHOOSE x \in vals : TRUE
         IN  v * Cardinality({i \in S : slots[i].allocated = v})
             + SumAllocated(S, vals \ {v})

\* The days the response has an entry for: "while day < request_data.to_date".
StatsDays(from_date, to_date) == {d \in from_date..to_date : d < to_date}

\* Schedule.objects.filter(valid_from__lte=to_date, valid_to__gte=from_date,
\*     resource=resource)
StatsSchedules(resource, from_date, to_date) ==
    {s \in LiveSchedules : /\ schedules[s].valid_from <= Combine(to_date, 0)
                            /\ schedules[s].valid_to >= Combine(from_date, 0)
                            /\ schedules[s].resource = resource}

\* TokenSlot.objects.filter(start_datetime__lte=to_date, end_datetime__gt=from_date,
\*     resource=resource)
StatsBookedSlots(resource, from_date, to_date) ==
    {i \in LiveSlots : /\ slots[i].start_datetime <= Combine(to_date, 0)
                        /\ slots[i].end_datetime > Combine(from_date, 0)
                        /\ ResourceOfSlot(i) = resource}

\* The response of availability_stats for a valid period: a KeyError when a
\* booked-slots group falls on a day without an entry.
StatsResponse(resource, from_date, to_date) ==
    LET days == StatsDays(from_date, to_date)
        scheds == StatsSchedules(resource, from_date, to_date)
        excs == {e \in ExceptionsOf(resource) :
                    e.valid_from <= to_date /\ e.valid_to >= from_date}
        booked == StatsBookedSlots(resource, from_date, to_date)
        total(d) == calculate_slots(d, 1,
                       {s \in scheds : DateOf(schedules[s].valid_from) <= d
                                       /\ d <= DateOf(schedules[s].valid_to)},
                       {e \in excs : e.valid_from <= d /\ d <= e.valid_to})
    IN  IF \E i \in booked : DateOf(slots[i].start_datetime) \notin days
        THEN [result |-> "KeyError", resp |-> << >>]
        ELSE [result |-> "ok",
              resp |-> [d \in days |->
                 [total_slots |-> total(d),
                  booked_slots |->
                      LET group == {i \in booked : DateOf(slots[i].start_datetime) = d}
                      IN  SumAllocated(group, {slots[i].allocated : i \in group})]]]

\* SlotViewSet.availability_stats: read-only, answered from the current rows.
availability_stats(r, from_date, to_date) ==
    /\ req[r].pc = "done"
    /\ started < MaxQueries /\ started' = started + 1
    /\ LET v == validate_period(from_date, to_date)
           out == IF v # "ok" THEN [result |-> v, resp |-> << >>]
                  ELSE IF StatsResource = 0
                  THEN [result |-> "not_schedulable", resp |-> << >>]
                  ELSE StatsResponse(StatsResource, from_date, to_date)
       IN  req' = [req EXCEPT ![r] = [NoReq EXCEPT
                      !.op = "availability_stats", !.from_date = from_date,
                      !.to_date = to_date, !.result = out.result,
                      !.resp = out.resp]]
    /\ UNCHANGED <<config, slots, bookings, lock, pend, reply>>

\* ------------------------------------------------------- specifications
\* A resource with one schedule and two appointment availabilities, whose
\* slots of day 1 have been materialized; the clock starts at 00:00 of day 1.
LedgerSchedules ==
    << [resource |-> 1, valid_from |-> Combine(0, 0), valid_to |-> Combine(3, 0)] >>
LedgerAvailabilities ==
    << [schedule |-> 1, slot_type |-> "appointment",
        slot_size_in_minutes |-> 120, tokens_per_slot |-> 1,
        availability |-> << [day_of_week |-> 1, start_time |-> 540, end_time |-> 660] >>],
       [schedule |-> 1, slot_type |-> "appointment",
        slot_size_in_minutes |-> 120, tokens_per_slot |-> 2,
        availability |-> << [day_of_week |-> 1, start_time |-> 720, end_time |-> 840] >>] >>
LedgerSlots ==
    << [availability |-> 1, start_datetime |-> Combine(1, 540),
        end_datetime |-> Combine(1, 660), allocated |-> 0],
       [availability |-> 2, start_datetime |-> Combine(1, 720),
        end_datetime |-> Combine(1, 840), allocated |-> 0] >>
\* The instants the clock takes: before both slots, and after the first began.
Instants == {Combine(1, 0), Combine(1, 600)}

Init ==
    /\ now = Combine(1, 0)
    /\ schedules = LedgerSchedules
    /\ availabilities = LedgerAvailabilities
    /\ exceptions = {}
    /\ slots = LedgerSlots
    /\ bookings = << >>
    /\ lock = {}
    /\ req = [r \in Reqs |-> NoReq]
    /\ pend = [r \in Reqs |-> NoPend]
    /\ started = 0
    /\ reply = "none"
    /\ deleted = NoneDeleted
    /\ perms = AllPermissions
    /\ resources = << Facility >>
    /\ payload = "none"

\* Time passes.
Tick ==
    /\ \E i \in Instants : i > now /\ now' = i
    /\ UNCHANGED <<schedules, availabilities, exceptions, slots, bookings,
                   lock, req, pend, started, reply, deleted, payload, perms, resources>>

\* A client sends a request, which handler r picks up.
Start(r) ==
    \/ \E s \in DOMAIN slots, p \in Patients : create_appointment(r, s, p)
    \/ \E b \in DOMAIN bookings, reason \in CancelReasons : cancel(r, b, reason)
    \/ \E b \in DOMAIN bookings, s \in DOMAIN slots : reschedule(r, b, s)

Step(r) ==
    \/ lca_acquire(r)
    \/ lca_check(r)
    \/ lca_save(r)
    \/ lca_commit(r)
    \/ lca_unlock(r)
    \/ cah_slot(r)
    \/ cah_booking(r)
    \/ cah_exit(r)
    \/ r_new_slot(r)
    \/ r_exit(r)

\* Requests of any number of clients, interleaved.
Next == Tick \/ \E r \in Reqs : Start(r) \/ Step(r)
Spec == Init /\ [][Next]_vars

\* One request at a time: a single handler serves one request after another.
SeqNext == Tick \/ Start(1) \/ Step(1)
SeqSpec == Init /\ [][SeqNext]_vars

\* ---------------------------------------- materializer and statistics specs
NumDays == 2
Days == 0..(NumDays - 1)

Window(d, s, e) == [day_of_week |-> d, start_time |-> s, end_time |-> e]
Availability(type, size, tokens, windows) ==
    [slot_type |-> type, slot_size_in_minutes |-> size,
     tokens_per_slot |-> tokens, availability |-> windows]

\* The availabilities clients submit: 09:00-13:00 in two-hour slots, 09:00-17:00
\* in quarter-hour slots, an open (non-appointment) window, three the
\* validators refuse (overlapping windows, a duration that is no multiple of
\* the slot size, a start after the end), and a window that opens at midnight.
AvailabilityInputs ==
    { Availability("appointment", 120, 2, << Window(0, 540, 780) >>),
      Availability("appointment", 15, 1, << Window(1, 540, 1020) >>),
      Availability("open", 0, 0, << Window(0, 540, 780) >>),
      Availability("appointment", 120, 1,
                   << Window(0, 540, 780), Window(0, 720, 1020) >>),
      Availability("appointment", 100, 1, << Window(0, 540, 780) >>),
      Availability("appointment", 120, 1, << Window(0, 780, 540) >>),
      Availability("appointment", 120, 1, << Window(1, 0, 120) >>) }
AvailabilityLists == {<< >>} \cup {<< a >> : a \in AvailabilityInputs}
ValidFroms == {Combine(0, 0), Combine(0, 600)}
ValidTos == {Combine(0, 300), Combine(NumDays, 0)}
\* Periods asked of availability_stats, one of them longer than max_period.
Periods == (Days \X (0..NumDays)) \cup {<<0, max_period + 1>>}

MatInit ==
    /\ now = Combine(0, 0)
    /\ schedules = << >>
    /\ availabilities = << >>
    /\ exceptions = {}
    /\ slots = << >>
    /\ bookings = << >>
    /\ lock = {}
    /\ req = [r \in Reqs |-> NoReq]
    /\ pend = [r \in Reqs |-> NoPend]
    /\ started = 0
    /\ reply = "none"
    /\ deleted = NoneDeleted
    /\ perms = AllPermissions
    /\ resources = << Facility >>
    /\ payload = "none"

Setup ==
    \/ \E vf \in ValidFroms, vt \in ValidTos, avs \in AvailabilityLists :
          schedule_create(Facility, vf, vt, avs)
    \/ \E s \in DOMAIN schedules, a \in AvailabilityInputs :
          availability_create(s, a)

Query(r) ==
    \/ \E d \in Days : get_slots_for_day(r, d)
    \/ \E p \in Periods : availability_stats(r, p[1], p[2])

MatStep(r) == gsfd_create(r) \/ gsfd_return(r)

\* Queries of any number of clients, interleaved.
MatNext == Setup \/ \E r \in Reqs : Query(r) \/ MatStep(r)
MatSpec == MatInit /\ [][MatNext]_vars

\* One query at a time: a query starts when no other is in progress.
Quiescent == \A q \in Reqs : req[q].pc = "done"
MatSeqNext == Setup \/ \E r \in Reqs : (Quiescent /\ Query(r)) \/ MatStep(r)
MatSeqSpec == MatInit /\ [][MatSeqNext]_vars

\* ---------------------------------------------------------------- claims
Tokens(s) == availabilities[slots[s].availability].tokens_per_slot
Active(i) == bookings[i].status \notin CANCELLED_STATUS_CHOICES
ActiveOn(s) == {i \in DOMAIN bookings : bookings[i].token_slot = s /\ Active(i)}

\* C1: of two create_appointment requests, for two patients, on a slot ahead
\* with tokens_per_slot = 1 and allocated = 0, exactly one succeeds and the
\* other fails with "Slot is already full", however they interleave.
C1_ExactlyOneCreateSucceeds ==
    \A r1, r2 \in Reqs :
        ( /\ r1 # r2
          /\ started = 2
          /\ req[r1].pc = "done" /\ req[r1].op = "create"
          /\ req[r2].pc = "done" /\ req[r2].op = "create"
          /\ req[r1].new_slot = req[r2].new_slot
          /\ req[r1].patient # req[r2].patient
          /\ Tokens(req[r1].new_slot) = 1
          /\ slots[req[r1].new_slot].start_datetime >= now )
        => {req[r1].result, req[r2].result} = {"ok", "full"}

\* C2: after any sequence of create, cancel and reschedule operations, each
\* slot's allocated equals the number of its bookings outside the cancelled set.
C2_AllocatedCountsActiveBookings ==
    \A s \in DOMAIN slots : slots[s].allocated = Cardinality(ActiveOn(s))

\* C3: under any interleaving of create, cancel and reschedule requests,
\* every slot has 0 <= allocated <= tokens_per_slot of its availability.
C3_AllocatedWithinCapacity ==
    \A s \in DOMAIN slots :
        0 <= slots[s].allocated /\ slots[s].allocated <= Tokens(s)

\* C4: the commit of a cancel sets the booking's status to the reason given;
\* it lowers the slot's allocated by exactly 1 when the booking was outside
\* the cancelled set and leaves it unchanged when the booking was already in
\* it, so repeated cancels of one booking release one unit.
C4_CancelReleasesOnce ==
    [][\A r \in Reqs :
          (req[r].op = "cancel" /\ req[r].pc = "cah_exit" /\ req'[r].pc = "done")
          => LET b == req[r].booking
                 s == bookings[b].token_slot
             IN  /\ bookings'[b].status = req[r].reason
                 /\ slots'[s].allocated =
                       IF bookings[b].status \in CANCELLED_STATUS_CHOICES
                       THEN slots[s].allocated
                       ELSE slots[s].allocated - 1
                 /\ \A o \in DOMAIN slots : o # s => slots'[o] = slots[o]
                 /\ Len(bookings') = Len(bookings)]_vars

\* A cancel of a booking that is already cancelled, with another reason, has
\* run its handler and is about to commit.
C4_Witness ==
    \E r \in Reqs :
        /\ req[r].op = "cancel" /\ req[r].pc = "cah_exit"
        /\ bookings[req[r].booking].status \in CANCELLED_STATUS_CHOICES
        /\ bookings[req[r].booking].status # req[r].reason
        /\ slots[req[r].l_slot].allocated = 0

\* C5: a reschedule changes the committed rows only in its final commit, and
\* that commit happens only when lock_create_appointment succeeded: when it
\* failed ("Slot is already past", "Slot is already full") the old booking's
\* status, both slots' allocated and the set of bookings are as before.
C5_FailedRescheduleChangesNothing ==
    [][\A r \in Reqs :
          ( /\ req'[r].op = "reschedule"
            /\ req'[r] # req[r]
            /\ ~(req[r].pc = "r_exit" /\ req[r].result = "ok") )
          => db' = db]_vars

\* A reschedule to a slot in the past has failed; the booking is still booked
\* and its slot still counts it.
C5_Witness ==
    \E r \in Reqs :
        /\ req[r].op = "reschedule" /\ req[r].pc = "done"
        /\ req[r].result = "past"
        /\ bookings[req[r].booking].status = "booked"
        /\ slots[req[r].l_slot].allocated = 1

\* The same for a reschedule to a full slot.
C5_WitnessFull ==
    \E r \in Reqs :
        /\ req[r].op = "reschedule" /\ req[r].pc = "done"
        /\ req[r].result = "full"
        /\ bookings[req[r].booking].status = "booked"

\* C6: under any interleaving there is at most one booking outside the
\* cancelled set for each (slot, patient) pair.
C6_OneActiveBookingPerSlotAndPatient ==
    \A i, j \in DOMAIN bookings :
        ( /\ i # j
          /\ bookings[i].token_slot = bookings[j].token_slot
          /\ bookings[i].patient = bookings[j].patient )
        => ~(Active(i) /\ Active(j))

SlotsQuery(r) ==
    req[r].op = "get_slots_for_day" /\ req[r].pc = "done" /\ req[r].result = "ok"
StatsQuery(r) ==
    req[r].op = "availability_stats" /\ req[r].pc = "done" /\ req[r].result = "ok"

\* What a get_slots_for_day response tells of each slot.
Returned(r) ==
    {[start_datetime |-> slots[i].start_datetime,
      end_datetime |-> slots[i].end_datetime,
      availability |-> slots[i].availability] : i \in req[r].resp}

\* The sum of tokens_per_slot over a set of slots, availability by availability.
RECURSIVE SumTokens(_, _)
SumTokens(S, a) ==
    IF a > Len(availabilities) THEN 0
    ELSE availabilities[a].tokens_per_slot
            * Cardinality({i \in S : slots[i].availability = a})
         + SumTokens(S, a + 1)

\* C7: two get_slots_for_day calls for one day, one after the other, with no
\* schedule, availability or exception change in between, return the same
\* slots (same count, same start and end times, same availability), and the
\* second call creates no slot row.
C7_MaterializationIdempotent ==
    /\ [](\A r1, r2 \in Reqs :
            (SlotsQuery(r1) /\ SlotsQuery(r2) /\ req[r1].day = req[r2].day)
            => /\ Returned(r1) = Returned(r2)
               /\ Cardinality(req[r1].resp) = Cardinality(req[r2].resp))
    /\ [][\A r1, r2 \in Reqs :
            ( /\ SlotsQuery(r1)
              /\ req[r2].pc = "gsfd_create" /\ req'[r2].pc = "gsfd_return"
              /\ req[r2].day = req[r1].day )
            => slots' = slots]_vars

\* Two calls for one day have answered, with slots to return.
C7_Witness ==
    \E r1, r2 \in Reqs :
        /\ r1 # r2
        /\ SlotsQuery(r1) /\ SlotsQuery(r2)
        /\ req[r1].day = req[r2].day
        /\ req[r1].resp # {}

\* C8: no two slots share (start_datetime, end_datetime, availability), also
\* after get_slots_for_day requests for one day ran concurrently.
C8_NoDuplicateSlots ==
    \A i, j \in DOMAIN slots :
        ( /\ slots[i].start_datetime = slots[j].start_datetime
          /\ slots[i].end_datetime = slots[j].end_datetime
          /\ slots[i].availability = slots[j].availability )
        => i = j

\* C9: with no exceptions and no slots materialized before, for every accepted
\* set of schedules and availabilities, the total_slots availability_stats
\* reports for a date equals the sum of tokens_per_slot over the slots
\* get_slots_for_day returns for that date.
C9_StatsTotalEqualsMaterializedTokens ==
    \A q, r \in Reqs :
        (StatsQuery(q) /\ SlotsQuery(r) /\ req[r].day \in DOMAIN req[q].resp)
        => req[q].resp[req[r].day].total_slots = SumTokens(req[r].resp, 1)

\* C10: availability_stats(from_date, to_date) has an entry for every date d
\* with from_date <= d <= to_date; availability_stats(d, d) has an entry for d
\* whose total_slots is the sum of tokens_per_slot over get_slots_for_day(d).
C10_StatsCoversEveryDate ==
    \A q \in Reqs :
        StatsQuery(q)
        => /\ \A d \in req[q].from_date..req[q].to_date : d \in DOMAIN req[q].resp
           /\ \A r \in Reqs :
                 ( /\ SlotsQuery(r)
                   /\ req[q].from_date = req[r].day
                   /\ req[q].to_date = req[r].day )
                 => req[q].resp[req[r].day].total_slots = SumTokens(req[r].resp, 1)


\* ------------------------------------------------ claims on the locking
\* C14: every write to a slot's allocated counter is made by a request that
\* holds the resource's lock at that moment (each write of the model is
\* inside a transaction: it goes to pend and reaches the rows at the COMMIT).
C14_AllocatedWrittenUnderLock ==
    [][\A r \in Reqs :
          (pend'[r].slotw # pend[r].slotw /\ pend'[r].slotw # {})
              => r \in lock]_vars

\* C15: whenever the resource's lock is free, no create_appointment or
\* reschedule request has an uncommitted booking inserted under the lock.
C15_LockFreeMeansCommitted ==
    lock = {} =>
        \A r \in Reqs : req[r].op \in {"create", "reschedule"}
                            => pend[r].newb = << >>


\* ------------------------------------------- claims on the booked counts
\* C11: availability_stats with a valid period completes without error, and
\* for every date it reports, booked_slots is the sum of allocated over the
\* slots get_slots_for_day returns for that date.
C11_StatsBookedEqualsSlotsOfDay ==
    \A q \in Reqs :
        ( /\ req[q].op = "availability_stats"
          /\ req[q].pc = "done"
          /\ validate_period(req[q].from_date, req[q].to_date) = "ok" )
        => /\ req[q].result = "ok"
           /\ \A r \in Reqs :
                 (SlotsQuery(r) /\ req[r].day \in DOMAIN req[q].resp)
                 => req[q].resp[req[r].day].booked_slots =
                       SumAllocated(req[r].resp,
                                    {slots[i].allocated : i \in req[r].resp})


\* ------------------------------------------ validation of weekly windows
\* The window lists clients submit: up to MaxWindows windows on two weekdays
\* between 09:00, 12:00, 13:00 and 17:00, in hourly slots.
MaxWindows == 2
WindowTimes == {540, 720, 780, 1020}
WindowChoices ==
    {Window(d, s, e) : d \in Days, s \in WindowTimes,
                       e \in {x \in WindowTimes : x > 540}}
WindowLists ==
    UNION {[1..n -> {w \in WindowChoices : w.start_time < w.end_time}] :
              n \in 1..MaxWindows}
WindowPayloads == {Availability("appointment", 60, 1, ws) : ws \in WindowLists}

OverlapInit ==
    /\ now = Combine(0, 0)
    /\ schedules = LedgerSchedules
    /\ availabilities = << >>
    /\ exceptions = {}
    /\ slots = << >>
    /\ bookings = << >>
    /\ lock = {}
    /\ req = [r \in Reqs |-> NoReq]
    /\ pend = [r \in Reqs |-> NoPend]
    /\ started = 0
    /\ reply = "none"
    /\ deleted = NoneDeleted
    /\ perms = AllPermissions
    /\ resources = << Facility >>
    /\ payload \in WindowPayloads

\* The payload is posted to the availability endpoint of the schedule, or as
\* the one availability of a new schedule.
OverlapNext ==
    \/ \E s \in DOMAIN schedules : availability_create(s, payload)
    \/ \E vf \in ValidFroms, vt \in ValidTos :
          schedule_create(Facility, vf, vt, << payload >>)
OverlapSpec == OverlapInit /\ [][OverlapNext]_vars

\* Two distinct windows of one weekday with a.start <= b.end and b.start <= a.end.
Touching(ws) ==
    \E i, j \in DOMAIN ws :
        /\ i # j
        /\ ws[i].day_of_week = ws[j].day_of_week
        /\ ws[i].start_time <= ws[j].end_time
        /\ ws[j].start_time <= ws[i].end_time

\* C20: has_overlapping_availability is true exactly for the lists with two
\* distinct same-weekday windows that overlap, ends included; windows on
\* different weekdays never count; an availability with such windows is
\* rejected with "Availability time ranges are overlapping" and nothing is saved.
C20_OverlapInclusive ==
    /\ has_overlapping_availability(payload.availability)
          <=> Touching(payload.availability)
    /\ reply # "none" => (reply = "overlapping" <=> Touching(payload.availability))
    /\ reply = "overlapping"
          => availabilities = << >> /\ schedules = LedgerSchedules

\* Two windows of one weekday that share only an endpoint were rejected.
C20_Witness ==
    /\ reply = "overlapping"
    /\ \E i, j \in DOMAIN payload.availability :
          /\ payload.availability[i].day_of_week = payload.availability[j].day_of_week
          /\ payload.availability[i].end_time = payload.availability[j].start_time


\* -------------------------------------------------- availability exceptions
MaxExceptions == 2

\* TokenSlot.objects.filter(resource, start_datetime__date__gte=valid_from,
\*     start_datetime__date__lte=valid_to, start_datetime__time__gte=start_time,
\*     start_datetime__time__lte=end_time)
ExceptionSlots(e) ==
    {i \in LiveSlots :
        /\ DateOf(slots[i].start_datetime) >= e.valid_from
        /\ DateOf(slots[i].start_datetime) <= e.valid_to
        /\ TimeOf(slots[i].start_datetime) >= e.start_time
        /\ TimeOf(slots[i].start_datetime) <= e.end_time}

\* if slots.filter(allocated__gt=0): raise ValidationError
ExceptionVerdict(e) ==
    IF \E i \in ExceptionSlots(e) : slots[i].allocated > 0
    THEN "bookings_during_exception"
    ELSE "ok"

\* AvailabilityException create: perform_extra_deserialization deletes the
\* selected slots, then the exception is saved.  payload keeps the request.
exception_create(e) ==
    /\ Quiescent
    /\ Cardinality(exceptions) < MaxExceptions
    /\ payload' = e
    /\ reply' = ExceptionVerdict(e)
    /\ IF ExceptionVerdict(e) = "ok"
       THEN /\ deleted' = [deleted EXCEPT !.slots = @ \cup ExceptionSlots(e)]
            /\ exceptions' = exceptions \cup {e}
       ELSE UNCHANGED <<deleted, exceptions>>
    /\ UNCHANGED <<now, schedules, availabilities, slots, bookings, lock, req,
                   pend, started, perms, resources>>

AvailabilityExceptionOf(valid_from, valid_to, start_time, end_time) ==
    [valid_from |-> valid_from, valid_to |-> valid_to,
     start_time |-> start_time, end_time |-> end_time]

\* The exceptions clients submit for day 1: 10:00-12:00, the whole day, the
\* first hour of the morning window, and 12:00-13:00 on days 0 to 1.
ExceptionInputs ==
    { AvailabilityExceptionOf(1, 1, 600, 720),
      AvailabilityExceptionOf(1, 1, 0, DayLen - 1),
      AvailabilityExceptionOf(1, 1, 540, 600),
      AvailabilityExceptionOf(0, 1, 720, 780) }

\* Bookings, slot queries and exception creations, one request at a time.
ExcNext ==
    \/ SeqNext
    \/ \E d \in Days : Quiescent /\ get_slots_for_day(1, d)
    \/ MatStep(1)
    \/ \E e \in ExceptionInputs : exception_create(e)
ExcSpec == Init /\ [][ExcNext]_vars

\* exception.start < slot.end and exception.end > slot.start, on a day of the
\* exception.
Intersects(i, e) ==
    /\ DateOf(slots[i].start_datetime) >= e.valid_from
    /\ DateOf(slots[i].start_datetime) <= e.valid_to
    /\ Combine(DateOf(slots[i].start_datetime), e.start_time) < slots[i].end_datetime
    /\ Combine(DateOf(slots[i].start_datetime), e.end_time) > slots[i].start_datetime

\* C12: the response of get_slots_for_day holds no slot that overlaps the time
\* range of an exception valid on that day.
C12_NoSlotInsideException ==
    [][\A r \in Reqs :
          (req[r].pc = "gsfd_return" /\ req'[r].pc = "done")
          => \A i \in req'[r].resp, e \in exceptions : ~Intersects(i, e)]_vars

\* A step of exception_create that answered a request.
ExceptionAnswered ==
    <<exceptions, deleted, reply, payload>>' # <<exceptions, deleted, reply, payload>>

\* C13: creating an exception is rejected, and deletes nothing, when a slot
\* with allocated > 0 intersects it; otherwise it succeeds and deletes exactly
\* the slots on record that intersect it.
C13_ExceptionRejectedIffAllocated ==
    [][ExceptionAnswered =>
          IF \E i \in LiveSlots : slots[i].allocated > 0 /\ Intersects(i, payload')
          THEN /\ reply' = "bookings_during_exception"
               /\ UNCHANGED <<deleted, exceptions>>
          ELSE /\ reply' = "ok"
               /\ payload' \in exceptions'
               /\ deleted'.slots = deleted.slots \cup
                      {i \in LiveSlots : Intersects(i, payload')}]_vars


\* ------------------------------------- schedule and availability edits
\* TokenSlot.objects.filter(availability__schedule__id=obj.id,
\*     start_datetime__gte=valid_from, start_datetime__lte=valid_to)
\*     .aggregate(total=Sum("allocated"))["total"] or 0
allocated_sum(s, valid_from, valid_to) ==
    LET S == {i \in LiveSlots :
                 /\ availabilities[slots[i].availability].schedule = s
                 /\ slots[i].start_datetime >= valid_from
                 /\ slots[i].start_datetime <= valid_to}
    IN  SumAllocated(S, {slots[i].allocated : i \in S})

\* ScheduleViewSet update: instance = get_object()
schedule_update(r, s, valid_from, valid_to) ==
    /\ req[r].pc = "done"
    /\ s \in LiveSchedules
    /\ req' = [req EXCEPT ![r] = [NoReq EXCEPT
                  !.pc = "su_check", !.op = "schedule_update", !.target = s,
                  !.valid_from = valid_from, !.valid_to = valid_to]]
    /\ started < MaxRequests /\ started' = started + 1
    /\ UNCHANGED <<config, slots, bookings, lock, pend, reply>>

\* ScheduleUpdateSpec.perform_extra_deserialization: the sums of allocated in
\* the old and in the new validity range are compared while the payload is
\* deserialized, before perform_update takes the lock.
su_check(r) ==
    /\ req[r].pc = "su_check"
    /\ LET s == req[r].target
           old_allocated_sum ==
               allocated_sum(s, schedules[s].valid_from, schedules[s].valid_to)
           new_allocated_sum ==
               allocated_sum(s, req[r].valid_from, req[r].valid_to)
       IN  req' = [req EXCEPT ![r] =
                     IF old_allocated_sum # new_allocated_sum
                     THEN Finished(req[r], "excludes_allocated")
                     ELSE [req[r] EXCEPT !.pc = "su_acquire"]]
    /\ UNCHANGED <<config, slots, bookings, lock, pend, started, reply>>

\* ScheduleViewSet.perform_update: with Lock(...)
su_acquire(r) ==
    /\ req[r].pc = "su_acquire"
    /\ LockAcquire(r)
    /\ req' = [req EXCEPT ![r].pc = "su_save"]
    /\ UNCHANGED <<config, slots, bookings, pend, started, reply>>

\* super().perform_update(instance) saves the row; the lock is left.
su_save(r) ==
    /\ req[r].pc = "su_save"
    /\ schedules' = [schedules EXCEPT
                        ![req[r].target].valid_from = req[r].valid_from,
                        ![req[r].target].valid_to = req[r].valid_to]
    /\ LockRelease(r)
    /\ req' = [req EXCEPT ![r] = Finished(req[r], "ok")]
    /\ UNCHANGED <<now, availabilities, exceptions, deleted, payload, perms, resources, slots,
                   bookings, pend, started, reply>>

\* instance.availability_set.all(): a lazy queryset, evaluated against the
\* rows not deleted at the moment it is used.
availability_set(s, del) ==
    {a \in DOMAIN availabilities \ del.availabilities :
        availabilities[a].schedule = s}

\* Faulty variant: bookings never stand in the way of a deletion.
has_future_bookings_never(avs) == FALSE

\* TokenSlot.objects.filter(availability_id__in=..., start_datetime__gt=
\*     timezone.now(), allocated__gt=0).exists()
has_future_bookings(avs) ==
    \E i \in LiveSlots : /\ slots[i].availability \in avs
                         /\ slots[i].start_datetime > now
                         /\ slots[i].allocated > 0

\* ScheduleViewSet destroy: instance = get_object()
schedule_destroy(r, s) ==
    /\ req[r].pc = "done"
    /\ s \in LiveSchedules
    /\ req' = [req EXCEPT ![r] = [NoReq EXCEPT
                  !.pc = "sd_acquire", !.op = "schedule_destroy", !.target = s]]
    /\ started < MaxRequests /\ started' = started + 1
    /\ UNCHANGED <<config, slots, bookings, lock, pend, reply>>

\* ScheduleViewSet.perform_destroy: with Lock(...), transaction.atomic()
sd_acquire(r) ==
    /\ req[r].pc = "sd_acquire"
    /\ LockAcquire(r)
    /\ req' = [req EXCEPT ![r].pc = "sd_run"]
    /\ UNCHANGED <<config, slots, bookings, pend, started, reply>>

\* The rows marked by perform_destroy: availabilities.update(deleted=True),
\* then the slots whose availability the queryset still returns, then the
\* schedule itself.
ScheduleDestroyed(s) ==
    LET d1 == [deleted EXCEPT !.availabilities = @ \cup availability_set(s, deleted)]
        d2 == [d1 EXCEPT !.slots = @ \cup
                  {i \in LiveSlots : slots[i].availability \in availability_set(s, d1)}]
    IN  [d2 EXCEPT !.schedules = @ \cup {s}]

\* The body of perform_destroy, the COMMIT and the release of the lock.
sd_run(r) ==
    /\ req[r].pc = "sd_run"
    /\ IF has_future_bookings(availability_set(req[r].target, deleted))
       THEN /\ req' = [req EXCEPT ![r] = Finished(req[r], "future_bookings")]
            /\ UNCHANGED deleted
       ELSE /\ req' = [req EXCEPT ![r] = Finished(req[r], "ok")]
            /\ deleted' = ScheduleDestroyed(req[r].target)
    /\ LockRelease(r)
    /\ UNCHANGED <<now, schedules, availabilities, exceptions, payload, perms, resources, slots,
                   bookings, pend, started, reply>>

\* AvailabilityViewSet destroy: instance = get_object()
availability_destroy(r, a) ==
    /\ req[r].pc = "done"
    /\ a \in LiveAvailabilities
    /\ req' = [req EXCEPT ![r] = [NoReq EXCEPT
                  !.pc = "ad_acquire", !.op = "availability_destroy", !.target = a]]
    /\ started < MaxRequests /\ started' = started + 1
    /\ UNCHANGED <<config, slots, bookings, lock, pend, reply>>

\* AvailabilityViewSet.perform_destroy: with Lock(...)
ad_acquire(r) ==
    /\ req[r].pc = "ad_acquire"
    /\ LockAcquire(r)
    /\ req' = [req EXCEPT ![r].pc = "ad_run"]
    /\ UNCHANGED <<config, slots, bookings, pend, started, reply>>

\* The check, super().perform_destroy(instance) and the release of the lock.
ad_run(r) ==
    /\ req[r].pc = "ad_run"
    /\ IF has_future_bookings({req[r].target})
       THEN /\ req' = [req EXCEPT ![r] = Finished(req[r], "future_bookings")]
            /\ UNCHANGED deleted
       ELSE /\ req' = [req EXCEPT ![r] = Finished(req[r], "ok")]
            /\ deleted' = [deleted EXCEPT !.availabilities = @ \cup {req[r].target}]
    /\ LockRelease(r)
    /\ UNCHANGED <<now, schedules, availabilities, exceptions, payload, perms, resources, slots,
                   bookings, pend, started, reply>>

\* The validity windows clients submit: up to 10:00 of day 1, from 11:40 of
\* day 1 on, and the whole period.
ValidityInputs ==
    { <<Combine(0, 0), Combine(1, 600)>>,
      <<Combine(1, 700), Combine(3, 0)>>,
      <<Combine(0, 0), Combine(3, 0)>> }

EditStart(r) ==
    \/ \E s \in DOMAIN schedules, w \in ValidityInputs :
          schedule_update(r, s, w[1], w[2])
    \/ \E s \in DOMAIN schedules : schedule_destroy(r, s)
    \/ \E a \in DOMAIN availabilities : availability_destroy(r, a)

EditStep(r) ==
    \/ su_check(r)
    \/ su_acquire(r)
    \/ su_save(r)
    \/ sd_acquire(r)
    \/ sd_run(r)
    \/ ad_acquire(r)
    \/ ad_run(r)

\* Bookings and edits, one request at a time.
EditSeqNext == SeqNext \/ EditStart(1) \/ EditStep(1)
EditSeqSpec == Init /\ [][EditSeqNext]_vars

\* create_appointment requests and edits of any number of clients, interleaved.
CreateStart(r) == \E s \in DOMAIN slots, p \in Patients : create_appointment(r, s, p)
CreateStep(r) ==
    \/ lca_acquire(r)
    \/ lca_check(r)
    \/ lca_save(r)
    \/ lca_commit(r)
    \/ lca_unlock(r)
EditNext ==
    \/ Tick
    \/ \E r \in Reqs : CreateStart(r) \/ CreateStep(r) \/ EditStart(r) \/ EditStep(r)
EditSpec == Init /\ [][EditNext]_vars


\* ------------------------------------------------- claims on the edits
\* Request r ends with this step.
Ends(r, op) == req[r].op = op /\ req[r].pc # "done" /\ req'[r].pc = "done"

\* The slots of schedule s with allocated > 0.
AllocatedUnder(s) ==
    {i \in LiveSlots : /\ availabilities[slots[i].availability].schedule = s
                       /\ slots[i].allocated > 0}
StartsInside(i, valid_from, valid_to) ==
    slots[i].start_datetime >= valid_from /\ slots[i].start_datetime <= valid_to

\* C16: a schedule update whose new validity window leaves out a slot with
\* allocated > 0 that started inside the old window is rejected with "Cannot
\* modify schedule validity as it would exclude some allocated slots" and
\* leaves the schedule unchanged.
C16_UpdateKeepsAllocatedSlots ==
    [][\A r \in Reqs :
          ( /\ Ends(r, "schedule_update")
            /\ \E i \in AllocatedUnder(req[r].target) :
                  /\ StartsInside(i, schedules[req[r].target].valid_from,
                                     schedules[req[r].target].valid_to)
                  /\ ~StartsInside(i, req[r].valid_from, req[r].valid_to) )
          => /\ req'[r].result = "excludes_allocated"
             /\ schedules' = schedules]_vars

\* The availabilities of schedule s and their slots, as far as not deleted.
AvailabilitiesOf(s) == {a \in LiveAvailabilities : availabilities[a].schedule = s}
SlotsOf(avs) == {i \in LiveSlots : slots[i].availability \in avs}
FutureAllocated(avs) ==
    \E i \in SlotsOf(avs) : slots[i].start_datetime > now /\ slots[i].allocated > 0

\* C17: deleting a schedule is rejected and changes nothing when one of its
\* slots starts in the future with allocated > 0; otherwise it succeeds and
\* marks the schedule, its availabilities and all their slots as deleted.
C17_ScheduleDeleteMarksAll ==
    [][\A r \in Reqs :
          Ends(r, "schedule_destroy")
          => IF FutureAllocated(AvailabilitiesOf(req[r].target))
             THEN /\ req'[r].result = "future_bookings"
                  /\ UNCHANGED <<deleted, schedules, availabilities, slots>>
             ELSE /\ req'[r].result = "ok"
                  /\ deleted' =
                        [schedules |-> deleted.schedules \cup {req[r].target},
                         availabilities |-> deleted.availabilities
                             \cup AvailabilitiesOf(req[r].target),
                         slots |-> deleted.slots
                             \cup SlotsOf(AvailabilitiesOf(req[r].target))]]_vars

\* C18: deleting an availability is rejected with "Cannot delete availability
\* as there are future bookings associated with it" and leaves it in place
\* when one of its slots starts in the future with allocated > 0; otherwise
\* the deletion succeeds.
C18_AvailabilityDeleteBlockedByBookings ==
    [][\A r \in Reqs :
          Ends(r, "availability_destroy")
          => IF FutureAllocated({req[r].target})
             THEN /\ req'[r].result = "future_bookings"
                  /\ UNCHANGED <<deleted, availabilities>>
             ELSE /\ req'[r].result = "ok"
                  /\ req[r].target \in deleted'.availabilities]_vars

\* An availability delete was refused and the availability is still there,
\* with its booked future slot.
C18_Witness ==
    \E r \in Reqs :
        /\ req[r].op = "availability_destroy"
        /\ req[r].pc = "done"
        /\ req[r].result = "future_bookings"
        /\ req[r].target \in LiveAvailabilities
        /\ FutureAllocated({req[r].target})

\* C19: in every committed state, each future slot with allocated > 0 starts
\* inside the validity window of its schedule, and neither its schedule nor
\* its availability is deleted.
C19_NoOrphanedBooking ==
    \A i \in DOMAIN slots :
        (slots[i].allocated > 0 /\ slots[i].start_datetime > now)
        => LET a == slots[i].availability
               s == availabilities[a].schedule
           IN  /\ a \notin deleted.availabilities
               /\ s \notin deleted.schedules
               /\ StartsInside(i, schedules[s].valid_from, schedules[s].valid_to)

\* ------------------------------------------- claims on the slots of a day
\* The slots of a response that start inside window w of the day.
InWindow(r, w) ==
    {i \in req[r].resp :
        /\ TimeOf(slots[i].start_datetime) >= w.start_time
        /\ TimeOf(slots[i].start_datetime) < w.end_time}

\* C21: for the only availability of a resource, with no exceptions,
\* get_slots_for_day on a day the availability is selected for returns, for
\* each weekly window of that weekday, exactly (end_time - start_time) /
\* slot_size_in_minutes slots: consecutive, of length slot_size_in_minutes,
\* from start_time to end_time, each with allocated = 0.
C21_WindowFullyMaterialized ==
    \A r \in Reqs :
        ( /\ SlotsQuery(r)
          /\ Len(availabilities) = 1
          /\ exceptions = {}
          /\ SelectedForDay(1, req[r].day) )
        => \A k \in DOMAIN availabilities[1].availability :
              LET w == availabilities[1].availability[k]
                  size == availabilities[1].slot_size_in_minutes
                  n == (w.end_time - w.start_time) \div size
              IN  w.day_of_week = Weekday(req[r].day)
                  => /\ Cardinality(InWindow(r, w)) = n
                     /\ {<<slots[i].start_datetime, slots[i].end_datetime>> :
                            i \in InWindow(r, w)}
                        = {<<Combine(req[r].day, w.start_time + (j - 1) * size),
                             Combine(req[r].day, w.start_time + j * size)>> :
                              j \in 1..n}
                     /\ \A i \in InWindow(r, w) : slots[i].allocated = 0

\* A step of a get_slots_for_day request of handler r.
SlotsQueryStep(r) ==
    \/ req[r].pc = "done" /\ req'[r].pc = "gsfd_create"
    \/ req[r].pc = "gsfd_create" /\ req'[r].pc = "gsfd_return"
    \/ req[r].pc = "gsfd_return" /\ req'[r].pc = "done"

\* C22: get_slots_for_day only adds slots with allocated = 0: it deletes no
\* slot, changes no field of a slot on record and creates no booking.
C22_SlotsQueryOnlyAdds ==
    [][\A r \in Reqs :
          SlotsQueryStep(r)
          => /\ bookings' = bookings
             /\ deleted' = deleted
             /\ Len(slots') >= Len(slots)
             /\ \A i \in DOMAIN slots : slots'[i] = slots[i]
             /\ \A i \in DOMAIN slots' \ DOMAIN slots : slots'[i].allocated = 0]_vars

\* A query that created a slot on a day that has a booked slot.
C22_Witness ==
    \E r \in Reqs :
        /\ SlotsQuery(r)
        /\ Len(slots) > Len(LedgerSlots)
        /\ \E i \in req[r].resp : slots[i].allocated > 0

\* ------------------------------------------ claims on create_appointment
\* The patient ids clients send: the patients on record and one that is not.
PatientIds == Patients \cup {NumPatients + 1}

\* create_appointment requests of any number of clients, interleaved.
CreateNext ==
    \/ Tick
    \/ \E r \in Reqs :
          \/ \E s \in DOMAIN slots, p \in PatientIds : create_appointment(r, s, p)
          \/ CreateStep(r)
CreateSpec == Init /\ [][CreateNext]_vars

\* A step of a create_appointment request of handler r.
CreateRequestStep(r) == req'[r].op = "create" /\ req'[r] # req[r]

\* C23: a create_appointment changes the rows only in its commit, which
\* happens only when all checks passed, raises the slot's allocated by
\* exactly 1 and adds exactly one booking with status "booked"; a request
\* that fails changes neither allocated nor the bookings; and when a request
\* has finished it does not hold the lock.
C23_CreateAllOrNothing ==
    [][\A r \in Reqs :
          CreateRequestStep(r)
          => /\ IF req[r].pc = "lca_commit"
                THEN /\ req[r].result = "ok"
                     /\ slots' = [slots EXCEPT ![req[r].new_slot].allocated = @ + 1]
                     /\ bookings' = Append(bookings,
                                       [token_slot |-> req[r].new_slot,
                                        patient |-> req[r].patient,
                                        status |-> "booked"])
                ELSE db' = db
             /\ req'[r].pc = "done" => r \notin lock'
             /\ (req'[r].pc = "done" /\ req'[r].result # "ok")
                   => pend'[r] = NoPend]_vars

\* ------------------------------------------------ the generic booking update
\* TokenBookingWriteSpec: a status of the cancelled set is refused with
\* "Cannot cancel a booking. Use the cancel endpoint".
validate_status(status) ==
    IF status \in CANCELLED_STATUS_CHOICES THEN "cannot_cancel" ELSE "ok"

\* The statuses clients send to the update endpoint.
UpdateStatuses == {"checked_in", "cancelled", "rescheduled"}

\* TokenBookingViewSet update (EMRUpdateMixin): get_object(), validation of
\* the payload; req[r].reason holds the status asked for.
booking_update(r, b, status) ==
    /\ req[r].pc = "done"
    /\ b \in DOMAIN bookings
    /\ req' = [req EXCEPT ![r] =
                  LET q == [NoReq EXCEPT !.op = "booking_update", !.booking = b,
                                         !.reason = status,
                                         !.patient = bookings[b].patient,
                                         !.l_status = bookings[b].status,
                                         !.l_slot = bookings[b].token_slot]
                  IN  IF validate_status(status) = "ok"
                      THEN [q EXCEPT !.pc = "bu_save"]
                      ELSE Finished(q, validate_status(status))]
    /\ started < MaxRequests /\ started' = started + 1
    /\ UNCHANGED <<config, slots, bookings, lock, pend, reply>>

\* perform_update: the booking row is saved with the new status.
bu_save(r) ==
    /\ req[r].pc = "bu_save"
    /\ BookingRowFree(r, req[r].booking)
    /\ bookings' = [bookings EXCEPT ![req[r].booking].status = req[r].reason]
    /\ req' = [req EXCEPT ![r] = Finished(req[r], "ok")]
    /\ UNCHANGED <<config, slots, lock, pend, started, reply>>

\* Bookings, cancels, reschedules and updates, one request at a time.
UpdateSeqNext ==
    \/ SeqNext
    \/ \E b \in DOMAIN bookings, st \in UpdateStatuses : booking_update(1, b, st)
    \/ bu_save(1)
UpdateSeqSpec == Init /\ [][UpdateSeqNext]_vars

AuthInit ==
    /\ now = Combine(1, 0)
    /\ schedules = LedgerSchedules
    /\ availabilities = LedgerAvailabilities
    /\ exceptions = {}
    /\ slots = [LedgerSlots EXCEPT ![2].allocated = 1]
    /\ bookings = << [token_slot |-> 2, patient |-> 1, status |-> "booked"] >>
    /\ lock = {}
    /\ req = [r \in Reqs |-> NoReq]
    /\ pend = [r \in Reqs |-> NoPend]
    /\ started = 0
    /\ reply = "none"
    /\ deleted = NoneDeleted
    /\ perms \in SUBSET AllPermissions
    /\ resources = << Facility >>
    /\ payload = "none"

AuthSpec == AuthInit /\ [][SeqNext]_vars

\* What each endpoint asks the AuthorizationController before it mutates.
Required(op) ==
    CASE op = "create"     -> {"can_create_appointment"}
      [] op = "cancel"     -> {"can_write_user_booking"}
      [] op = "reschedule" -> {"can_write_user_booking", "can_create_appointment"}
      [] OTHER             -> {}

\* C25: a create_appointment, cancel or reschedule request of a user who lacks
\* a required permission is answered "permission denied" at once, before any
\* row is written: the slots, the bookings and the pending writes are
\* unchanged by it, and it never takes the lock.
C25_DeniedBeforeMutation ==
    [][\A r \in Reqs :
          /\ req[r].pc = "done"
          /\ req'[r] # req[r]
          /\ ~(Required(req'[r].op) \subseteq perms)
          => /\ req'[r].pc = "done"
             /\ req'[r].result = "permission_denied"
             /\ db' = db
             /\ pend' = pend
             /\ lock' = lock]_vars

\* A reschedule was denied to a user who may write bookings but may not create
\* appointments, and the booking is as it was.
C25_Witness ==
    /\ perms = {"can_write_user_booking"}
    /\ req[1].op = "reschedule"
    /\ req[1].result = "permission_denied"
    /\ bookings[1].status = "booked"

\* --------------------------------------------------- claims on reschedule
\* The sum of allocated over the first n rows of a slot table.
RECURSIVE TotalAllocated(_, _)
TotalAllocated(sl, n) ==
    IF n = 0 THEN 0 ELSE sl[n].allocated + TotalAllocated(sl, n - 1)

\* The commit of a successful reschedule by handler r of a booking that held a
\* unit of its slot.
RescheduleCommit(r) ==
    /\ req[r].op = "reschedule"
    /\ req[r].pc = "r_exit"
    /\ req[r].result = "ok"
    /\ req'[r].pc = "done"
    /\ bookings[req[r].booking].status \notin CANCELLED_STATUS_CHOICES

\* C26: the commit of a successful reschedule of a booking sets the old
\* booking's status to "rescheduled", adds exactly one booking, with status
\* "booked", for the same patient on new_slot, and leaves the sum of allocated
\* over the resource's slots unchanged, also when new_slot is the slot the
\* booking was on.
C26_RescheduleKeepsAllocatedSum ==
    [][\A r \in Reqs :
          RescheduleCommit(r)
          => /\ bookings'[req[r].booking].status = "rescheduled"
             /\ bookings' = Append([bookings EXCEPT ![req[r].booking].status = "rescheduled"],
                                   [token_slot |-> req[r].new_slot,
                                    patient |-> bookings[req[r].booking].patient,
                                    status |-> "booked"])
             /\ TotalAllocated(slots', Len(slots')) = TotalAllocated(slots, Len(slots))]_vars

\* The same for a reschedule onto another slot than the booking's.
C26_OtherSlot ==
    [][\A r \in Reqs :
          RescheduleCommit(r) /\ req[r].new_slot # bookings[req[r].booking].token_slot
          => TotalAllocated(slots', Len(slots')) = TotalAllocated(slots, Len(slots))]_vars

\* ------------------------------------------- claims on the validations
\* Two weekly windows share more than an end point.
WindowsOverlap(v, w) ==
    /\ v.day_of_week = w.day_of_week
    /\ v.start_time < w.end_time
    /\ w.start_time < v.end_time

\* C27: in every state reached through Schedule creation and Availability
\* creation, no two weekly windows of appointment availabilities that apply
\* to the resource on the same day overlap (so that no two candidate slots of
\* a day have the same start and end time).
C27_WindowsNeverOverlap ==
    \A d \in Days : \A a, b \in DOMAIN availabilities :
        SelectedForDay(a, d) /\ SelectedForDay(b, d)
        => \A i \in DOMAIN availabilities[a].availability,
              j \in DOMAIN availabilities[b].availability :
              /\ a # b \/ i # j
              /\ availabilities[a].availability[i].day_of_week = Weekday(d)
              => ~WindowsOverlap(availabilities[a].availability[i],
                                 availabilities[b].availability[j])

\* ------------------------- exception creation concurrent with bookings
\* AvailabilityException create as the database sees it: the validation's
\* query "slots.filter(allocated__gt=0)" reads the committed rows; no lock is
\* taken.  One exception request is in progress at a time.
ec_validate(r, e) ==
    /\ req[r].pc = "done"
    /\ \A q \in Reqs : req[q].pc # "ec_delete"
    /\ Cardinality(exceptions) < MaxExceptions
    /\ started < MaxRequests /\ started' = started + 1
    /\ payload' = e
    /\ reply' = ExceptionVerdict(e)
    /\ req' = [req EXCEPT ![r] =
                  IF ExceptionVerdict(e) = "ok"
                  THEN [NoReq EXCEPT !.pc = "ec_delete", !.op = "exception_create"]
                  ELSE Finished([NoReq EXCEPT !.op = "exception_create"],
                                ExceptionVerdict(e))]
    /\ UNCHANGED <<now, schedules, availabilities, exceptions, slots, bookings,
                   lock, pend, deleted, perms, resources>>

\* slots.delete(): the queryset is evaluated anew, and the statement waits for
\* the rows another transaction has written; then the exception is saved.
ec_delete(r) ==
    /\ req[r].pc = "ec_delete"
    /\ \A s \in ExceptionSlots(payload) : SlotRowFree(r, s)
    /\ deleted' = [deleted EXCEPT !.slots = @ \cup ExceptionSlots(payload)]
    /\ exceptions' = exceptions \cup {payload}
    /\ req' = [req EXCEPT ![r] = Finished(req[r], "ok")]
    /\ UNCHANGED <<now, schedules, availabilities, slots, bookings, lock, pend,
                   started, reply, payload, perms, resources>>

\* create_appointment requests and exception creations of any number of
\* clients, interleaved.
ExcRaceNext ==
    \/ Tick
    \/ \E r \in Reqs :
          \/ CreateStart(r)
          \/ CreateStep(r)
          \/ \E e \in ExceptionInputs : ec_validate(r, e)
          \/ ec_delete(r)
ExcRaceSpec == Init /\ [][ExcRaceNext]_vars

\* C29: however an AvailabilityException creation and a create_appointment
\* interleave, no slot is deleted while it has allocated > 0 or a
\* non-cancelled booking.
C29_NoBookedSlotDeleted ==
    [][\A s \in deleted'.slots \ deleted.slots :
          /\ slots[s].allocated = 0
          /\ ActiveOn(s) = {}]_vars

\* What follows from it: once the requests have finished, every non-cancelled
\* booking refers to a slot that exists.
C29_BookingsKeepTheirSlot ==
    Quiescent
    => \A b \in DOMAIN bookings :
          Active(b) => bookings[b].token_slot \in LiveSlots

\* The exception's validation passed, then a create_appointment committed on a
\* slot of its range, and the deletion is still to come.
C29_CommitBetweenCheckAndDelete ==
    \E r \in Reqs :
        /\ req[r].pc = "ec_delete"
        /\ \E b \in DOMAIN bookings :
              /\ Active(b)
              /\ bookings[b].token_slot \in ExceptionSlots(payload)
              /\ slots[bookings[b].token_slot].allocated > 0

\* ------------------------------------------------------ claims on the lock
\* The requests that take the lock, of any number of clients, interleaved:
\* create_appointment, reschedule, and the schedule edits.
LockNext ==
    \/ Tick
    \/ \E r \in Reqs :
          \/ CreateStart(r)
          \/ \E b \in DOMAIN bookings, s \in DOMAIN slots : reschedule(r, b, s)
          \/ Step(r)
          \/ EditStart(r)
          \/ EditStep(r)

\* Every handler that can take a step eventually takes one: a request in
\* progress is not abandoned by the server.
FairSpec ==
    Init /\ [][LockNext]_vars /\ \A r \in Reqs : WF_vars(Step(r) \/ EditStep(r))

\* Handler r is at "with Lock(...)", waiting for the lock.
Waiting(r) ==
    req[r].pc \in {"lca_acquire", "su_acquire", "sd_acquire", "ad_acquire"}

\* C30: under fair scheduling, every request that waits for the lock
\* "booking:resource:<id>" eventually finishes, and does not hold the lock
\* when it has finished.
C30_WaitingRequestFinishes ==
    \A r \in Reqs : Waiting(r) ~> (req[r].pc = "done" /\ r \notin lock)

\* A reschedule has written its booking's slot row and waits for the lock,
\* which a create_appointment holds that waits for that row.
C30_Deadlock ==
    \E r, q \in Reqs :
        /\ req[r].op = "reschedule" /\ req[r].pc = "lca_acquire"
        /\ lock = {q}
        /\ req[q].pc = "lca_save"
        /\ ~SlotRowFree(q, req[q].new_slot)

\* The safety half: a finished request does not hold the lock, and the lock
\* has at most one holder.
C30_FinishedHoldsNoLock ==
    /\ Cardinality(lock) <= 1
    /\ \A r \in Reqs : req[r].pc = "done" => r \notin lock

\* ------------------------------------------- a user of two facilities
\* No resource yet: the user becomes schedulable in a facility with the first
\* schedule created there.
ResInit ==
    /\ now = Combine(0, 0)
    /\ schedules = << >>
    /\ availabilities = << >>
    /\ exceptions = {}
    /\ slots = << >>
    /\ bookings = << >>
    /\ lock = {}
    /\ req = [r \in Reqs |-> NoReq]
    /\ pend = [r \in Reqs |-> NoPend]
    /\ started = 0
    /\ reply = "none"
    /\ deleted = NoneDeleted
    /\ perms = AllPermissions
    /\ resources = << >>
    /\ payload = "none"

\* The schedules created in the two facilities: one availability each, with
\* the morning window in two-hour slots or the day-1 window in quarter hours.
ResAvailabilityLists ==
    { << Availability("appointment", 120, 2, << Window(0, 540, 780) >>) >>,
      << Availability("appointment", 15, 1, << Window(1, 540, 1020) >>) >> }

\* Schedules are created in either facility; then the slots and the
\* statistics of the user are asked for under Facility, one query at a time.
ResNext ==
    \/ \E f \in Facilities, vf \in ValidFroms, vt \in ValidTos,
          avs \in ResAvailabilityLists : schedule_create(f, vf, vt, avs)
    \/ \E r \in Reqs : (Quiescent /\ Query(r)) \/ MatStep(r)
ResSpec == ResInit /\ [][ResNext]_vars

\* Handler r answers an availability_stats request for a valid period.
StatsStep(r) ==
    /\ req'[r] # req[r]
    /\ req'[r].op = "availability_stats"
    /\ validate_period(req'[r].from_date, req'[r].to_date) = "ok"

\* C28: availability_stats asked for a user under Facility, where the user is
\* schedulable, answers from the schedules, exceptions and slots of the
\* resource (user, Facility), the resource get_slots_for_day resolves: its
\* response is the one computed from that resource, whatever the user's
\* resource in the other facility holds.
C28_StatsReadsTheFacilityResource ==
    [][\A r \in Reqs :
          StatsStep(r) /\ SlotsResource # 0
          => LET out == StatsResponse(SlotsResource, req'[r].from_date,
                                      req'[r].to_date)
             IN  req'[r].result = out.result /\ req'[r].resp = out.resp]_vars

\* The user is schedulable in both facilities, the other one first, and the
\* statistics were answered.
C28_TwoFacilities ==
    /\ resources = << OtherFacility, Facility >>
    /\ \E r \in Reqs : StatsQuery(r) /\ req[r].from_date < req[r].to_date

====
